---- MODULE Spec2Model ----
(***************************************************************************)
(* A model of MacrosPlugin (src/mkdocs_macros/plugin.py): the hook lists   *)
(* filled by _load_modules, the render decision and error handling of      *)
(* render(), and the event handlers on_config, on_nav, on_page_markdown    *)
(* and on_post_build, driven by the host in its build order.               *)
(*                                                                         *)
(* The host (mkdocs build) calls on_config, on_nav, on_page_markdown for   *)
(* each document in turn and on_post_build; a handler left by an exception *)
(* or by exit() ends the build.  Each handler is one action; what the      *)
(* modules' hooks and the template engine do is an input of the action.    *)
(*                                                                         *)
(* Spec is one build of a site with every kind of document.  ServeSpec is  *)
(* a process that goes through several builds with the same plugin object  *)
(* (on_config entered again after on_post_build), for every configuration  *)
(* of the named modules, the local module name and on_undefined.           *)
(* LayerSpec is one build of a site whose external yaml file, extra,       *)
(* modules and document metadata assign the same variables.                *)
(*                                                                         *)
(* Values.  A text is a record [doc, part, pre, form, post]: the body      *)
(* ("body") or title ("title") of document doc, or a navigation title      *)
(* ("nav"); pre/post tell whether a pre-render / post-render hook has      *)
(* rewritten env.markdown; form is "raw" (as the host gave it),            *)
(* "rendered" (output of the template engine) or "error" (the diagnostic   *)
(* built by format_error).  Python's True/False/None in document metadata  *)
(* are the strings "True", "False", "None".  A dict is a function whose    *)
(* domain is its set of keys.                                              *)
(***************************************************************************)
EXTENDS Integers, Sequences, FiniteSets, TLC

VARIABLES
    config,                 \* self.config: the plugin's options (set by the host)
    phase,                  \* where the host is in its build: start, config, pages, built
    fatal,                  \* "none", "exit" (SystemExit) or "error" (exception left a handler)
    exit_status,            \* the status given to exit(), 0 while none
    variables,              \* self._variables, NotSet before on_config
    pre_macro_functions,    \* self._pre_macro_functions
    post_macro_functions,   \* self._post_macro_functions
    post_build_functions,   \* self._post_build_functions
    loaded,                 \* modules given to _load_module by the latest setup, in order
    _page,                  \* self._page
    _markdown,              \* self._markdown
    ndocs,                  \* documents handed to on_page_markdown in this build
    cur,                    \* what the latest on_page_markdown call did
    earlier,                \* summary of the documents of this build before cur
    build_calls,            \* post-build hooks invoked by the latest on_post_build
    build_raiser,           \* position of the post-build hook that raised in it (0: none)
    raised,                 \* the exception that left the latest handler, NoError if none
    _macros,                \* self._macros, NotSet before on_config
    _filters,               \* self._filters, NotSet until the filters property is first read
    env,                    \* self.env, the template engine's environment
    installed,              \* packages install_package has installed in this process
    load_log,               \* imports, installs and loads of the latest _load_modules
    registered,             \* calls of the entry points, and of macro / filter by them, in the latest setup
    last_read,              \* the latest read of a property before on_config
    ctx,                    \* what env.page and env.markdown give to code of the latest handler
    builds,                 \* setups entered in this process
    attrs,                  \* the attributes set on the plugin object, among those of Attributes
    prior                   \* names of the modules loaded by the earlier setups of this process

vars == <<config, phase, fatal, exit_status, variables, pre_macro_functions,
          post_macro_functions, post_build_functions, loaded, _page, _markdown,
          ndocs, cur, earlier, build_calls, build_raiser, raised, _macros, _filters,
          env, installed, load_log, registered, last_read, ctx, builds, attrs, prior>>

----------------------------------------------------------------------------
(* Bounds *)

MaxDocs == 2
MaxModules == 2
MaxBuilds == 2

----------------------------------------------------------------------------
(* Program constants *)

DEFAULT_MODULE_NAME == "main"
UNDEFINED_BEHAVIOR ==
    [keep |-> "DebugUndefined", silent |-> "Undefined", strict |-> "StrictUndefined",
     lax |-> "LaxUndefined"]
DEFAULT_UNDEFINED_BEHAVIOR == "keep"
ERROR_MACRO == 100

----------------------------------------------------------------------------
(* Values *)

None == "None"
EmptyDict == <<>>
NotSet == "NotSet"
NoPage == [id |-> 0, meta |-> EmptyDict]
NoText == [doc |-> 0, part |-> "none", pre |-> FALSE, form |-> "unset", post |-> FALSE]
NoError == [type |-> "", name |-> ""]

Phases == {"pre", "post", "build"}
ModuleNames == {"a", "b"}

\* dict.get(key): the value, or None when the key is absent
Get(d, key) == IF key \in DOMAIN d THEN d[key] ELSE None

\* dict.update(other): other's bindings replace d's at the top level
Update(d, other) ==
    [key \in DOMAIN d \cup DOMAIN other |->
        IF key \in DOMAIN other THEN other[key] ELSE d[key]]

\* the raw text the host hands over
RawText(d, part) == [doc |-> d, part |-> part, pre |-> FALSE, form |-> "raw", post |-> FALSE]

\* Document metadata.  The two tri-state flags in every combination (each true,
\* false or absent), and the user key k set beside no flag, beside
\* ignore_macros: true and beside render_macros: true.
FlagMetas == UNION {[D -> {"True", "False"}] : D \in SUBSET {"ignore_macros", "render_macros"}}
Metas ==
    FlagMetas \cup
    {Update(m, [k |-> "v_meta"]) :
        m \in {EmptyDict, [ignore_macros |-> "True"], [render_macros |-> "True"]}}

\* the host's `extra` mapping: empty, or defining the user key
Extras == {EmptyDict, [k |-> "v_extra"]}

\* extra of a site that also defines a key the built-in context defines
LayerExtras == Extras \cup {[k |-> "v_extra", git |-> "v_extra"]}

\* the content of the file config['include_yaml'] names (a bare entry): no file,
\* or one that defines the user key and a key of the built-in context
Yamls == {EmptyDict, [k |-> "v_yaml", git |-> "v_yaml"]}

\* what the built-in context assigns in the store
BuiltinContext == [git |-> "v_builtin"]

\* metadata of the documents of a site that uses no flag
LayerMetas == {EmptyDict, [k |-> "v_meta"]}

\* the configured lists of named modules: each module at most once
ModuleLists ==
    {ms \in UNION {[1..n -> ModuleNames] : n \in 0..Cardinality(ModuleNames)} :
        \A i, j \in 1..Len(ms) : ms[i] = ms[j] => i = j}

\* every module a configuration names in this model, and the lists of at most
\* MaxModules of them
AllModuleNames == {"a", "b", "c", "d", "e"}
WideModuleLists ==
    {ms \in UNION {[1..n -> AllModuleNames] : n \in 0..MaxModules} :
        \A i, j \in 1..Len(ms) : ms[i] = ms[j] => i = j}

\* the names of the local module: the default and an explicit one
LocalNames == {DEFAULT_MODULE_NAME, "custom"}

\* the modules lists and local module names of a site whose modules assign
\* variables
LayerModuleLists ==
    {ms \in UNION {[1..n -> {"a", "n"}] : n \in 0..2} :
        \A i, j \in 1..Len(ms) : ms[i] = ms[j] => i = j}
LayerLocalNames == {DEFAULT_MODULE_NAME, "local"}

\* the values of on_undefined: the four policies and an illegal name
PolicyNames == DOMAIN UNDEFINED_BEHAVIOR \cup {"bogus"}

\* a callable with its own declared name
Callable(n, b) == [__name__ |-> n, body |-> b]

\* a call env.macro(v, name), env.filter(v, name) or env.variables[name] = v
\* made by a registration entry point
Reg(kind, v, name) == [kind |-> kind, v |-> v, name |-> name]

NoRegs == [define_env |-> <<>>, declare_variables |-> <<>>]

\* The modules of the environment.  dist tells how import finds the module:
\* "present" at once, "installable" after install_package, "broken" when
\* install_package fails, "absent" when the installed package has no such
\* module.  Each has its registration entry points with the calls they make,
\* some of the three optional hooks, and among these the hooks that assign
\* env.markdown.
Installed ==
    [a    |-> [name |-> "a", dist |-> "present", entry |-> {"define_env"},
               hooks |-> {"pre", "post", "build"}, writes |-> {"pre"},
               registers |->
                   [NoRegs EXCEPT !.define_env =
                       <<Reg("macro", Callable("f", "a.f"), ""),
                         Reg("filter", Callable("f", "a.flt"), "")>>]],
     b    |-> [name |-> "b", dist |-> "installable", entry |-> {"declare_variables"},
               hooks |-> {"pre", "build"}, writes |-> {},
               registers |->
                   [NoRegs EXCEPT !.declare_variables =
                       <<Reg("macro", Callable("helper", "b.helper"), "g")>>]],
     c    |-> [name |-> "c", dist |-> "present", entry |-> {},
               hooks |-> {"pre", "build"}, writes |-> {}, registers |-> NoRegs],
     d    |-> [name |-> "d", dist |-> "broken", entry |-> {"define_env"},
               hooks |-> {"pre"}, writes |-> {}, registers |-> NoRegs],
     e    |-> [name |-> "e", dist |-> "absent", entry |-> {"define_env"},
               hooks |-> {"pre"}, writes |-> {}, registers |-> NoRegs],
     main |-> [name |-> "main", dist |-> "present", entry |-> {"define_env"},
               hooks |-> {"post", "build"}, writes |-> {"post"},
               registers |->
                   [NoRegs EXCEPT !.define_env =
                       <<Reg("macro", Callable("f", "main.f"), ""),
                         Reg("filter", Callable("only_main", "main.flt"), ""),
                         Reg("variable", Callable("", "main.v"), "v_main")>>]],
     custom |-> [name |-> "custom", dist |-> "present", entry |-> {"define_env"},
               hooks |-> {"build"}, writes |-> {}, registers |-> NoRegs],
     n    |-> [name |-> "n", dist |-> "present",
               entry |-> {"define_env", "declare_variables"},
               hooks |-> {"pre"}, writes |-> {},
               registers |->
                   [define_env |->
                       <<Reg("macro", Callable("f", "n.modern"), ""),
                         Reg("variable", Callable("", "v_modern"), "k")>>,
                    declare_variables |->
                       <<Reg("macro", Callable("f", "n.legacy"), ""),
                         Reg("variable", Callable("", "v_n"), "k")>>]],
     local |-> [name |-> "local", dist |-> "present", entry |-> {"define_env"},
               hooks |-> {"build"}, writes |-> {},
               registers |->
                   [NoRegs EXCEPT !.define_env =
                       <<Reg("variable", Callable("", "v_local"), "k"),
                         Reg("variable", Callable("", [local |-> "v_local"]), "macros")>>]]]

\* the calls of env.macro and env.filter that the pre-render hook of a module
\* makes, for the modules whose hook makes some
LateRegs ==
    [n |-> <<Reg("macro", Callable("late", "n.late"), ""),
             Reg("filter", Callable("late_flt", "n.late_flt"), "")>>]

\* what import gives for a module that is not there (falsy)
NoModule ==
    [name |-> "", dist |-> "", entry |-> {}, hooks |-> {}, writes |-> {}, registers |-> NoRegs]

----------------------------------------------------------------------------
(* The properties of the env object *)

\* the attributes of the plugin object that on_config, _load_modules or a
\* getter creates
Attributes ==
    {"_variables", "_macros", "_filters", "_pre_macro_functions", "_post_macro_functions",
     "_post_build_functions"}

\* the variables property: self._variables, AttributeError when it is not set
\* (has tells whether the attribute is set, attr is its value)
property_variables(has, attr) ==
    IF ~has THEN [kind |-> "raise", value |-> "AttributeError"]
    ELSE [kind |-> "return", value |-> attr]

\* the macros property: self._macros, AttributeError when it is not set
property_macros(has, attr) ==
    IF ~has THEN [kind |-> "raise", value |-> "AttributeError"]
    ELSE [kind |-> "return", value |-> attr]

\* the filters property: self._filters, created empty when it is not set
property_filters(has, attr) ==
    IF ~has THEN [kind |-> "return", value |-> EmptyDict]
    ELSE [kind |-> "return", value |-> attr]

\* the page property: self._page, AttributeError when it is not set
property_page(attr) ==
    IF attr = NoPage THEN [kind |-> "raise", value |-> "AttributeError"]
    ELSE [kind |-> "return", value |-> attr]

\* the markdown property: self._markdown, AttributeError when it is not set
property_markdown(attr) ==
    IF attr = NoText THEN [kind |-> "raise", value |-> "AttributeError"]
    ELSE [kind |-> "return", value |-> attr]

\* the pre_macro_functions, post_macro_functions and post_build_functions
\* properties: the list, AttributeError when it is not set
property_functions(has, attr) ==
    IF ~has THEN [kind |-> "raise", value |-> "AttributeError"]
    ELSE [kind |-> "return", value |-> attr]

\* macro that keeps the first binding of a name
macro_first_wins(macros, v, name) ==
    LET n == IF name # "" THEN name ELSE v.__name__
    IN  [registry |-> IF n \in DOMAIN macros THEN macros ELSE Update(macros, [x \in {n} |-> v]),
         result |-> v]

\* macro(v, name) on the registry macros: the registry afterwards and the value
\* returned
macro(macros, v, name) ==
    LET n == IF name # "" THEN name ELSE v.__name__
    IN  [registry |-> Update(macros, [x \in {n} |-> v]), result |-> v]

\* filter(v, name) on the registry filters (the value of the filters property)
filter(filters, v, name) ==
    LET n == IF name # "" THEN name ELSE v.__name__
    IN  [registry |-> Update(filters, [x \in {n} |-> v]), result |-> v]

----------------------------------------------------------------------------
(* Module loading *)

\* the well-known hook names and the list each is appended to
HookName(ph) ==
    CASE ph = "pre"   -> "on_pre_page_macros"
      [] ph = "post"  -> "on_post_page_macros"
      [] ph = "build" -> "on_post_build"

\* hasattr(module, funcname) for the three hook names
hasattr(module, funcname) == \E ph \in module.hooks : HookName(ph) = funcname

\* add_function with the hook put at the head of the list
add_function_prepend(funcname, funclist, module) ==
    IF hasattr(module, funcname) THEN <<module.name>> \o funclist ELSE funclist

\* add_function: append the module's hook to the list when the module has it
add_function(funcname, funclist, module) ==
    IF hasattr(module, funcname) THEN Append(funclist, module.name) ELSE funclist

\* the hook lists as they are, in place of fresh ones
NewLists_kept ==
    [pre    |-> IF "_pre_macro_functions" \in attrs THEN pre_macro_functions ELSE <<>>,
     post   |-> IF "_post_macro_functions" \in attrs THEN post_macro_functions ELSE <<>>,
     build  |-> IF "_post_build_functions" \in attrs THEN post_build_functions ELSE <<>>,
     loaded |-> <<>>, raised |-> NoError]

\* The hook lists and the load record when _load_modules starts; raised is the
\* exception that ended it (NoError while none).
NewLists == [pre |-> <<>>, post |-> <<>>, build |-> <<>>, loaded |-> <<>>, raised |-> NoError]

\* an entry of the load log
Event(op, name) == [op |-> op, name |-> name]

\* The calls a registration entry point makes, from position i on.  st holds
\* the store, the registries and the record of the calls with their results.
RECURSIVE register(_, _, _)
register(calls, i, st) ==
    IF i > Len(calls) THEN st
    ELSE LET c == calls[i]
             m == macro(st.macros, c.v, c.name)
             f == filter(property_filters("_filters" \in st.attrs, st.filters).value,
                         c.v, c.name)
             done == Append(st.registered,
                            [kind |-> c.kind, v |-> c.v, name |-> c.name,
                             result |-> IF c.kind = "macro" THEN m.result
                                        ELSE IF c.kind = "filter" THEN f.result ELSE c.v])
             next == CASE c.kind = "macro"    -> [st EXCEPT !.macros = m.registry]
                       [] c.kind = "filter"   ->
                            [st EXCEPT !.filters = f.registry, !.attrs = @ \cup {"_filters"}]
                       [] c.kind = "variable" ->
                            [st EXCEPT !.store = Update(@, [x \in {c.name} |-> c.v.body])]
         IN  register(calls, i + 1, [next EXCEPT !.registered = done])

\* the record of a call of the entry point `entry` of the module `name`
Called(entry, name) ==
    [kind |-> entry, v |-> Callable(entry, name), name |-> name, result |-> Callable(entry, name)]

\* if hasattr(module, entry): the entry point is called, and makes its calls
call_entry(module, entry, st) ==
    IF entry \in module.entry
    THEN register(module.registers[entry], 1,
                  [st EXCEPT !.registered = Append(@, Called(entry, module.name))])
    ELSE st

\* run_entry_points that looks for the legacy entry point first
run_entry_points_legacy_first(module, st) ==
    call_entry(module, "define_env", call_entry(module, "declare_variables", st))

\* the registration entry points of the module that exist: define_env, then
\* the legacy declare_variables
run_entry_points(module, st) ==
    call_entry(module, "declare_variables", call_entry(module, "define_env", st))

\* the three calls of add_function, for a module that is now loaded
add_functions(module, st) ==
    [st EXCEPT !.pre   = add_function("on_pre_page_macros", @, module),
               !.post  = add_function("on_post_page_macros", @, module),
               !.build = add_function("on_post_build", @, module),
               !.loaded = Append(@, module)]

\* _load_module with the hooks harvested before the entry points are looked for
_load_module_hooks_first(module, st) ==
    IF module = NoModule THEN st
    ELSE IF module.entry = {}
    THEN [add_functions(module, st) EXCEPT
              !.log = Append(@, Event("load", module.name)),
              !.loaded = st.loaded,
              !.raised = [type |-> "NameError", name |-> module.name]]
    ELSE add_functions(module,
             run_entry_points(module,
                 [st EXCEPT !.log = Append(@, Event("load", module.name))]))

\* _load_module: the registration entry points, NameError when the module has
\* neither, then the three optional hooks
_load_module(module, st) ==
    IF module = NoModule THEN st
    ELSE IF module.entry = {}
    THEN [st EXCEPT !.log = Append(@, Event("load", module.name)),
                    !.raised = [type |-> "NameError", name |-> module.name]]
    ELSE add_functions(module,
             run_entry_points(module,
                 [st EXCEPT !.log = Append(@, Event("load", module.name))]))

\* importlib.import_module(name) with the packages inst installed by this
\* process: the module, or NoModule for ModuleNotFoundError
import_module(name, inst) ==
    LET m == Installed[name]
    IN  IF m.dist = "present" \/ (m.dist = "installable" /\ name \in inst)
        THEN m ELSE NoModule

\* import_or_install that gives up silently on a module it cannot import
import_or_install_skip(name, st) ==
    LET st1 == [st EXCEPT !.log = Append(@, Event("import", name))]
    IN  [module |-> import_module(name, st.installed), st |-> st1]

\* The import of a named module: import; when not found, install_package and a
\* second import; ModuleNotFoundError naming the module when the install raises
\* NameError or the second import does not find it.
import_or_install(name, st) ==
    LET first == import_module(name, st.installed)
        st1 == [st EXCEPT !.log = Append(@, Event("import", name))]
        st2 == [st1 EXCEPT !.log = Append(@, Event("install", name))]
        st3 == [st2 EXCEPT !.installed = @ \cup {name},
                           !.log = Append(@, Event("import", name))]
        second == import_module(name, st3.installed)
        error == [type |-> "ModuleNotFoundError", name |-> name]
    IN  IF first # NoModule THEN [module |-> first, st |-> st1]
        ELSE IF Installed[name].dist = "broken"
        THEN [module |-> NoModule, st |-> [st2 EXCEPT !.raised = error]]
        ELSE IF second = NoModule
        THEN [module |-> NoModule, st |-> [st3 EXCEPT !.raised = error]]
        ELSE [module |-> second, st |-> st3]

\* self._load_module(module, module_name) for the module an import gave, unless
\* the import raised
load_imported(r) ==
    IF r.st.raised # NoError THEN r.st ELSE _load_module(r.module, r.st)

\* the loop over config['modules'], from position i on
RECURSIVE load_named(_, _, _)
load_named(modules, i, st) ==
    IF i > Len(modules) \/ st.raised # NoError THEN st
    ELSE load_named(modules, i + 1, load_imported(import_or_install(modules[i], st)))

\* load_local that takes a missing local module for an error whatever its name
load_local_required(cfg, found, named) ==
    IF named.raised # NoError THEN named
    ELSE IF found
    THEN _load_module(Installed[cfg.module_name],
                      [named EXCEPT !.log = Append(@, Event("import_local", cfg.module_name))])
    ELSE [named EXCEPT !.log = Append(@, Event("import_local", cfg.module_name)),
                       !.raised = [type |-> "ImportError", name |-> cfg.module_name]]

\* The local module, after the named modules left the load state named: found
\* tells whether import_local_module finds it.
load_local(cfg, found, named) ==
    IF named.raised # NoError THEN named
    ELSE IF found
    THEN _load_module(Installed[cfg.module_name],
                      [named EXCEPT !.log = Append(@, Event("import_local", cfg.module_name))])
    ELSE IF cfg.module_name = DEFAULT_MODULE_NAME
    THEN [named EXCEPT !.log = Append(@, Event("import_local", cfg.module_name))]
    ELSE [named EXCEPT !.log = Append(@, Event("import_local", cfg.module_name)),
                       !.raised = [type |-> "ImportError", name |-> cfg.module_name]]

\* _load_modules: fresh lists, the named modules in configured order, then the
\* local module.  store, macros and filters are the store and the registries
\* when it starts, inst the packages installed so far, at the attributes set on
\* the object.
_load_modules(cfg, found, store, macros, filters, inst, at) ==
    load_local(cfg, found,
        load_named(cfg.modules, 1,
            [pre |-> NewLists.pre, post |-> NewLists.post, build |-> NewLists.build,
             loaded |-> NewLists.loaded, raised |-> NewLists.raised,
             log |-> <<>>, registered |-> <<>>, installed |-> inst,
             store |-> store, macros |-> macros, filters |-> filters,
             attrs |-> at \cup {"_pre_macro_functions", "_post_macro_functions",
                                "_post_build_functions"}]))

----------------------------------------------------------------------------
(* render *)

\* opt_out that lets render_macros, when it is given, overrule ignore_macros
opt_out_render_overrules(ignore_macros, render_macros) ==
    IF render_macros # None THEN render_macros = "False" ELSE ignore_macros = "True"

\* opt_out looking at ignore_macros alone
opt_out_ignore_only(ignore_macros, render_macros) == ignore_macros = "True"

\* opt-out: force of a page NOT to be interpreted
opt_out(ignore_macros, render_macros) == ignore_macros = "True" \/ render_macros = "False"

\* opt_in looking at render_macros alone
opt_in_render_only(ignore_macros, render_macros) == render_macros = "True"

\* opt-in: force a page to be interpreted
opt_in(ignore_macros, render_macros) == render_macros = "True" \/ ignore_macros = "False"

\* md_template.render: the template engine's output for a text
engine_render(markdown) == [markdown EXCEPT !.form = "rendered"]

\* format_error: the diagnostic for a failed evaluation of markdown on page
format_error(markdown, page) == [markdown EXCEPT !.form = "error", !.doc = page.id]

\* the store itself in place of a copy of it
copy_alias(d) == [shared |-> TRUE, dict |-> d]

\* copy(self.variables): a new dict with the same bindings; shared tells whether
\* writing to it writes to the original
copy(d) == [shared |-> FALSE, dict |-> d]

\* render_error returning the text it was given in place of the diagnostic
render_error_raw(markdown, page, merged, store) ==
    IF page = NoPage
    THEN [kind |-> "raise", value |-> NoText, engine |-> TRUE, failed |-> TRUE,
          page_variables |-> merged, store |-> store]
    ELSE IF config.on_error_fail
    THEN [kind |-> "exit", value |-> NoText, engine |-> TRUE, failed |-> TRUE,
          page_variables |-> merged, store |-> store]
    ELSE [kind |-> "return", value |-> markdown, engine |-> TRUE,
          failed |-> TRUE, page_variables |-> merged, store |-> store]

\* render_error that never exits
render_error_no_exit(markdown, page, merged, store) ==
    IF page = NoPage
    THEN [kind |-> "raise", value |-> NoText, engine |-> TRUE, failed |-> TRUE,
          page_variables |-> merged, store |-> store]
    ELSE [kind |-> "return", value |-> format_error(markdown, page), engine |-> TRUE,
          failed |-> TRUE, page_variables |-> merged, store |-> store]

\* what render does when the template engine raised on markdown, given merged
render_error(markdown, page, merged, store) ==
    IF page = NoPage
    THEN \* self.page raises AttributeError inside the handler
         [kind |-> "raise", value |-> NoText, engine |-> TRUE, failed |-> TRUE,
          page_variables |-> merged, store |-> store]
    ELSE IF config.on_error_fail
    THEN [kind |-> "exit", value |-> NoText, engine |-> TRUE, failed |-> TRUE,
          page_variables |-> merged, store |-> store]
    ELSE [kind |-> "return", value |-> format_error(markdown, page), engine |-> TRUE,
          failed |-> TRUE, page_variables |-> merged, store |-> store]

\* render without the decision: every text is handed to the template engine
render_no_decision(markdown, store, page, fails) ==
    LET page_variables == copy(store)
        meta_variables == IF "page" \in DOMAIN store THEN store["page"].meta ELSE EmptyDict
        merged == Update(page_variables.dict, meta_variables)
        store1 == IF page_variables.shared THEN merged ELSE store
    IN  IF ~fails
        THEN [kind |-> "return", value |-> engine_render(markdown), engine |-> TRUE,
              failed |-> FALSE, page_variables |-> merged, store |-> store1]
        ELSE render_error(markdown, page, merged, store1)

\* render with the metadata merged into the store itself
render_merge_in_place(markdown, store, page, fails) ==
    LET meta_variables == IF "page" \in DOMAIN store THEN store["page"].meta ELSE EmptyDict
        ignore_macros == IF DOMAIN meta_variables # {}
                         THEN Get(meta_variables, "ignore_macros") ELSE None
        render_macros == IF DOMAIN meta_variables # {}
                         THEN Get(meta_variables, "render_macros") ELSE None
        skipped == IF config.render_by_default
                   THEN opt_out(ignore_macros, render_macros)
                   ELSE ~opt_in(ignore_macros, render_macros)
        merged == Update(store, meta_variables)
    IN  IF skipped
        THEN [kind |-> "return", value |-> markdown, engine |-> FALSE, failed |-> FALSE,
              page_variables |-> EmptyDict, store |-> store]
        ELSE IF ~fails
        THEN [kind |-> "return", value |-> engine_render(markdown), engine |-> TRUE,
              failed |-> FALSE, page_variables |-> merged, store |-> merged]
        ELSE render_error(markdown, page, merged, merged)

\* render(markdown) on the store `store`, with self._page = page; fails tells
\* whether the template engine raises on this text.  The result is how the call
\* ends (return / exit / raise), the value returned, whether the template
\* engine was invoked and whether it raised, the variables it was given and
\* the store afterwards.
render(markdown, store, page, fails) ==
    LET page_variables == copy(store)
        meta_variables == IF "page" \in DOMAIN store THEN store["page"].meta ELSE EmptyDict
        ignore_macros == IF DOMAIN meta_variables # {}
                         THEN Get(meta_variables, "ignore_macros") ELSE None
        render_macros == IF DOMAIN meta_variables # {}
                         THEN Get(meta_variables, "render_macros") ELSE None
        skipped == IF config.render_by_default
                   THEN opt_out(ignore_macros, render_macros)
                   ELSE ~opt_in(ignore_macros, render_macros)
        \* page_variables.update(meta_variables)
        merged == Update(page_variables.dict, meta_variables)
        store1 == IF page_variables.shared THEN merged ELSE store
    IN  IF skipped
        THEN [kind |-> "return", value |-> markdown, engine |-> FALSE, failed |-> FALSE,
              page_variables |-> EmptyDict, store |-> store]
        ELSE IF ~fails
        THEN [kind |-> "return", value |-> engine_render(markdown), engine |-> TRUE,
              failed |-> FALSE, page_variables |-> merged, store |-> store1]
        ELSE render_error(markdown, page, merged, store1)

----------------------------------------------------------------------------
(* Hooks *)

\* a hook assigns env.markdown
hook_write(markdown, ph) ==
    IF ph = "pre" THEN [markdown EXCEPT !.pre = TRUE] ELSE [markdown EXCEPT !.post = TRUE]

\* func(self) for the hook of module name in phase ph, when it returns
call_hook(name, ph, markdown) ==
    IF ph \in Installed[name].writes THEN hook_write(markdown, ph) ELSE markdown

\* run_hooks with each call guarded: an exception of a hook is swallowed
RECURSIVE run_hooks_swallow(_, _, _, _, _)
run_hooks_swallow(funclist, i, raiser, ph, markdown) ==
    IF i > Len(funclist) THEN [calls |-> <<>>, markdown |-> markdown, raised |-> FALSE]
    ELSE LET next == IF i = raiser THEN markdown ELSE call_hook(funclist[i], ph, markdown)
             rest == run_hooks_swallow(funclist, i + 1, raiser, ph, next)
         IN  [calls |-> <<funclist[i]>> \o rest.calls, markdown |-> rest.markdown,
              raised |-> FALSE]

\* run_hooks that leaves the post-render hooks out when the text is a diagnostic
RECURSIVE run_hooks_skip_failed(_, _, _, _, _)
run_hooks_skip_failed(funclist, i, raiser, ph, markdown) ==
    IF i > Len(funclist) \/ (ph = "post" /\ markdown.form = "error")
    THEN [calls |-> <<>>, markdown |-> markdown, raised |-> FALSE]
    ELSE IF i = raiser THEN [calls |-> <<funclist[i]>>, markdown |-> markdown, raised |-> TRUE]
    ELSE LET rest == run_hooks_skip_failed(funclist, i + 1, raiser, ph,
                                           call_hook(funclist[i], ph, markdown))
         IN  [calls |-> <<funclist[i]>> \o rest.calls, markdown |-> rest.markdown,
              raised |-> rest.raised]

\* for func in funclist: func(self), from position i on, with env.markdown =
\* markdown; the hook at position raiser raises (0: none does).  The result is
\* the sequence of hooks invoked, env.markdown when the loop is left, and
\* whether an exception left it.
RECURSIVE run_hooks(_, _, _, _, _)
run_hooks(funclist, i, raiser, ph, markdown) ==
    IF i > Len(funclist) THEN [calls |-> <<>>, markdown |-> markdown, raised |-> FALSE]
    ELSE IF i = raiser THEN [calls |-> <<funclist[i]>>, markdown |-> markdown, raised |-> TRUE]
    ELSE LET rest == run_hooks(funclist, i + 1, raiser, ph, call_hook(funclist[i], ph, markdown))
         IN  [calls |-> <<funclist[i]>> \o rest.calls, markdown |-> rest.markdown,
              raised |-> rest.raised]

----------------------------------------------------------------------------
(* What is recorded of a call of on_page_markdown *)

NoRender ==
    [kind |-> "none", value |-> NoText, engine |-> FALSE, failed |-> FALSE,
     page_variables |-> EmptyDict]

Observed(r) ==
    [kind |-> r.kind, value |-> r.value, engine |-> r.engine, failed |-> r.failed,
     page_variables |-> r.page_variables]

NoCur ==
    [doc |-> 0, meta |-> EmptyDict, raw |-> NoText, pre_raiser |-> 0, pre_calls |-> <<>>,
     body_in |-> NoText, body |-> NoRender, title |-> NoRender, post_raiser |-> 0,
     post_calls |-> <<>>, returned |-> NoText, ended |-> "none", steps |-> <<>>,
     callable |-> [globals |-> EmptyDict, filters |-> EmptyDict]]

NoEarlier == [diag |-> FALSE, meta_k |-> FALSE]

\* earlier, with the document recorded in c added
Summary(e, c) ==
    IF c.doc = 0 THEN e
    ELSE [diag   |-> e.diag \/ (c.body.kind = "return" /\ c.body.value.form = "error"),
          meta_k |-> e.meta_k \/ ("k" \in DOMAIN c.meta /\ c.body.kind = "return" /\ c.body.engine)]

----------------------------------------------------------------------------
(* The host *)

\* What the host gives to the handlers.  A build (mkdocs build) is one pass of
\* the handlers in a process; its site has documents with every metadata of
\* Metas, templates that may fail and hooks that may raise.  In serve mode the
\* process goes through up to MaxBuilds builds with the same plugin object; its
\* site has documents without metadata, templates that evaluate and hooks that
\* return.
BuildHost ==
    [extras |-> Extras, metas |-> Metas, failures |-> BOOLEAN, raising |-> TRUE, builds |-> 1]
ServeHost ==
    [extras |-> Extras, metas |-> {EmptyDict}, failures |-> {FALSE}, raising |-> FALSE,
     builds |-> MaxBuilds]
LayerHost ==
    [extras |-> LayerExtras, metas |-> LayerMetas, failures |-> {FALSE}, raising |-> FALSE,
     builds |-> 1]

\* the positions at which a hook of funclist may raise (0: none raises)
Raisers(h, funclist) == IF h.raising THEN 0..Len(funclist) ELSE {0}

----------------------------------------------------------------------------
(* The handlers *)

NoRead == [prop |-> "", kind |-> "none", value |-> ""]
NoCtx == [at |-> "none", page |-> property_page(NoPage), markdown |-> property_markdown(NoText)]
NoEnv == [undefined |-> "", globals |-> EmptyDict, filters |-> EmptyDict]
Properties ==
    {"variables", "macros", "filters", "page", "markdown", "pre_macro_functions",
     "post_macro_functions", "post_build_functions"}

\* the state of a new plugin object, before the host calls any handler
Start ==
    /\ phase = "start"
    /\ fatal = "none"
    /\ exit_status = 0
    /\ variables = NotSet
    /\ pre_macro_functions = NotSet
    /\ post_macro_functions = NotSet
    /\ post_build_functions = NotSet
    /\ loaded = <<>>
    /\ _page = NoPage
    /\ _markdown = NoText
    /\ ndocs = 0
    /\ cur = NoCur
    /\ earlier = NoEarlier
    /\ build_calls = <<>>
    /\ build_raiser = 0
    /\ raised = NoError
    /\ _macros = NotSet
    /\ _filters = NotSet
    /\ env = NoEnv
    /\ installed = {}
    /\ load_log = <<>>
    /\ registered = <<>>
    /\ last_read = NoRead
    /\ ctx = NoCtx
    /\ builds = 0
    /\ attrs = {}
    /\ prior = {}

\* a build of a site whose configuration leaves module_name and on_undefined at
\* their defaults and names modules that can be imported
Init ==
    /\ config \in [render_by_default : BOOLEAN, on_error_fail : BOOLEAN,
                   modules : ModuleLists, module_name : {DEFAULT_MODULE_NAME},
                   on_undefined : {DEFAULT_UNDEFINED_BEHAVIOR}, include_yaml : {EmptyDict}]
    /\ Start

\* serve mode, with any list of named modules, local module name and
\* on_undefined, and on_error_fail at its default
ServeInit ==
    /\ config \in [render_by_default : BOOLEAN, on_error_fail : {FALSE},
                   modules : WideModuleLists, module_name : LocalNames,
                   on_undefined : PolicyNames, include_yaml : {EmptyDict}]
    /\ Start

\* a build of a site in opt-out mode whose external file, extra, modules and
\* document metadata assign variables
LayerInit ==
    /\ config \in [render_by_default : {TRUE}, on_error_fail : {FALSE},
                   modules : LayerModuleLists, module_name : LayerLocalNames,
                   on_undefined : {DEFAULT_UNDEFINED_BEHAVIOR}, include_yaml : Yamls]
    /\ Start

\* A read of a property of the env object before on_config, by code that got
\* hold of the plugin object: the getter's result, and self._filters created by
\* the filters getter.
read_before_config ==
    /\ fatal = "none"
    /\ phase = "start"
    /\ \E prop \in Properties :
         LET has(a) == a \in attrs
             r == CASE prop = "variables" -> property_variables(has("_variables"), variables)
                    [] prop = "macros"    -> property_macros(has("_macros"), _macros)
                    [] prop = "filters"   -> property_filters(has("_filters"), _filters)
                    [] prop = "page"      -> property_page(_page)
                    [] prop = "markdown"  -> property_markdown(_markdown)
                    [] prop = "pre_macro_functions"  ->
                         property_functions(has("_pre_macro_functions"), pre_macro_functions)
                    [] prop = "post_macro_functions" ->
                         property_functions(has("_post_macro_functions"), post_macro_functions)
                    [] prop = "post_build_functions" ->
                         property_functions(has("_post_build_functions"), post_build_functions)
         IN  /\ last_read' = [prop |-> prop, kind |-> r.kind, value |-> r.value]
             /\ _filters' = IF prop = "filters" THEN r.value ELSE _filters
             /\ attrs' = IF prop = "filters" THEN attrs \cup {"_filters"} ELSE attrs
    /\ UNCHANGED <<config, phase, fatal, exit_status, variables, pre_macro_functions,
                   post_macro_functions, post_build_functions, loaded, _page, _markdown,
                   ndocs, cur, earlier, build_calls, build_raiser, raised, _macros, env,
                   installed, load_log, registered, ctx, builds, prior>>

\* the attributes of the object as a load state says they are
Loaded(st, exc, filters, new_env, store, at) ==
    [st |-> st, raised |-> exc, filters |-> filters, env |-> new_env, store |-> store,
     attrs |-> at]

\* finish_config with an on_undefined it does not know taken for the default
finish_config_any_policy(cfg, include_dir, old_env, st, filters1) ==
    IF st.raised # NoError
    THEN Loaded(st, st.raised, st.filters, old_env, st.store, st.attrs)
    ELSE IF ~include_dir
    THEN Loaded(st, [type |-> "FileNotFoundError", name |-> "include_dir"], filters1,
                old_env, st.store, st.attrs \cup {"_filters"})
    ELSE Loaded(st, NoError, filters1,
                [undefined |-> IF cfg.on_undefined \in DOMAIN UNDEFINED_BEHAVIOR
                               THEN UNDEFINED_BEHAVIOR[cfg.on_undefined]
                               ELSE UNDEFINED_BEHAVIOR[DEFAULT_UNDEFINED_BEHAVIOR],
                 globals |-> st.macros, filters |-> filters1],
                Update(st.store, [macros |-> st.macros, filters |-> filters1,
                                  filters_builtin |-> "builtin"]),
                st.attrs \cup {"_filters"})

\* on_config after _load_modules left the load state st (an exception of
\* _load_modules leaves on_config): the include directory and on_undefined are
\* checked, the template environment is built, and the macros and filters are
\* referenced in the store and given to the environment.  filters1 is what the
\* filters property gives (if self.filters:), old_env is self.env so far.
finish_config(cfg, include_dir, old_env, st, filters1) ==
    IF st.raised # NoError
    THEN Loaded(st, st.raised, st.filters, old_env, st.store, st.attrs)
    ELSE IF ~include_dir
    THEN Loaded(st, [type |-> "FileNotFoundError", name |-> "include_dir"], filters1,
                old_env, st.store, st.attrs \cup {"_filters"})
    ELSE IF cfg.on_undefined \notin DOMAIN UNDEFINED_BEHAVIOR
    THEN Loaded(st, [type |-> "ValueError", name |-> "on_undefined"], filters1,
                old_env, st.store, st.attrs \cup {"_filters"})
    ELSE Loaded(st, NoError, filters1,
                [undefined |-> UNDEFINED_BEHAVIOR[cfg.on_undefined],
                 globals |-> st.macros, filters |-> filters1],
                Update(st.store, [macros |-> st.macros, filters |-> filters1,
                                  filters_builtin |-> "builtin"]),
                st.attrs \cup {"_filters"})

\* the filters property read on a load state
filters_of(st) == property_filters("_filters" \in st.attrs, st.filters).value

\* on_config from the modules on
load_and_finish(cfg, include_dir, old_env, st) ==
    finish_config(cfg, include_dir, old_env, st, filters_of(st))

\* _load_yaml: the content of the include_yaml file merged into the store
_load_yaml(store, content) == Update(store, content)

\* define_env(self) of the built-in context: its assignments in the store
define_env(store) == Update(store, BuiltinContext)

\* load_variables with the external file read after extra was loaded
load_variables_yaml_last(cfg, extra) ==
    _load_yaml(Update(define_env([extra |-> extra, config |-> "config"]), extra),
               cfg.include_yaml)

\* the store before the modules are loaded: extra and config referenced, the
\* external yaml file, the built-in context, then the variables of extra
load_variables(cfg, extra) ==
    Update(define_env(_load_yaml([extra |-> extra, config |-> "config"], cfg.include_yaml)),
           extra)

\* The steps of on_config(config) for the plugin options cfg: the store and the
\* macro registry are created, the store is seeded by load_variables, the
\* modules are loaded, and the rest is finish_config.  filters is self._filters, inst the
\* installed packages, old_env self.env and at the attributes set when the
\* handler starts.  The result is the load state, the exception raised
\* (NoError: none) and self._filters, self.env, the store and the attributes
\* set when the handler is left.
configure(cfg, extra, found, include_dir, filters, inst, old_env, at) ==
    load_and_finish(cfg, include_dir, old_env,
        _load_modules(cfg, found, load_variables(cfg, extra),
                      EmptyDict, filters, inst, at \cup {"_variables", "_macros"}))

\* the assignments of on_config, r being what configure gives
Configured(r) ==
    /\ variables' = r.store
    /\ attrs' = r.attrs
    /\ _macros' = r.st.macros
    /\ _filters' = r.filters
    /\ env' = r.env
    /\ pre_macro_functions' = r.st.pre
    /\ post_macro_functions' = r.st.post
    /\ post_build_functions' = r.st.build
    /\ loaded' = r.st.loaded
    /\ installed' = r.st.installed
    /\ load_log' = r.st.log
    /\ registered' = r.st.registered
    /\ raised' = r.raised
    /\ fatal' = IF r.raised # NoError THEN "error" ELSE "none"

\* on_config(config), called by host h: at the start of the process, and again
\* after a finished build when h rebuilds in the same process
Config(h) ==
    /\ fatal = "none"
    /\ phase \in (IF builds >= 1 /\ builds < h.builds THEN {"built"} ELSE {"start"})
    /\ \E extra \in h.extras, found \in BOOLEAN, include_dir \in BOOLEAN :
         Configured(configure(config, extra, found, include_dir, _filters, installed,
                              env, attrs))
    /\ phase' = "config"
    /\ builds' = builds + 1
    /\ prior' = prior \cup {loaded[i].name : i \in 1..Len(loaded)}
    /\ ctx' = [at |-> "config", page |-> property_page(_page),
               markdown |-> property_markdown(_markdown)]
    /\ last_read' = NoRead
    /\ ndocs' = 0
    /\ cur' = NoCur
    /\ earlier' = NoEarlier
    /\ build_calls' = <<>>
    /\ build_raiser' = 0
    /\ UNCHANGED <<config, exit_status, _page, _markdown>>

on_config == Config(BuildHost)

\* on_nav(nav, config, files): the navigation titles are rendered (an
\* AttributeError is swallowed by render_nav), then nav and files are stored
on_nav ==
    /\ fatal = "none"
    /\ phase = "config"
    /\ \E nav \in {"empty", "ok", "fails"} :
         LET r == IF nav = "empty"
                  THEN [kind |-> "return", store |-> variables]
                  ELSE render(RawText(0, "nav"), variables, _page, nav = "fails")
         IN  IF r.kind = "exit"
             THEN /\ fatal' = "exit"
                  /\ exit_status' = ERROR_MACRO
                  /\ raised' = [type |-> "SystemExit", name |-> ""]
                  /\ variables' = r.store
                  /\ phase' = phase
             ELSE /\ variables' = Update(r.store, [navigation |-> "nav", files |-> "files"])
                  /\ phase' = "pages"
                  /\ UNCHANGED <<fatal, exit_status, raised>>
    /\ UNCHANGED <<config, pre_macro_functions, post_macro_functions, post_build_functions,
                   loaded, _page, _markdown, ndocs, cur, earlier, build_calls, build_raiser,
                   _macros, _filters, env, installed, load_log, registered, last_read, ctx,
                   builds, attrs, prior>>

\* hooks_register with the template environment following the registries
RECURSIVE hooks_register_live(_, _, _, _)
hooks_register_live(calls, i, n, st) ==
    IF i > n THEN [st EXCEPT !.env.globals = st.macros, !.env.filters = st.filters]
    ELSE hooks_register_live(calls, i + 1, n,
             register(IF calls[i] \in DOMAIN LateRegs THEN LateRegs[calls[i]] ELSE <<>>, 1, st))

\* The calls of env.macro and env.filter made by the pre-render hooks calls[i..n]
\* that returned.  st holds the registries, the attributes set and self.env.
RECURSIVE hooks_register(_, _, _, _)
hooks_register(calls, i, n, st) ==
    IF i > n THEN st
    ELSE hooks_register(calls, i + 1, n,
             register(IF calls[i] \in DOMAIN LateRegs THEN LateRegs[calls[i]] ELSE <<>>, 1, st))

\* the calls of the hooks of a loop, as steps of on_page_markdown
HookSteps(ph, calls) == [i \in 1..Len(calls) |-> Event(ph, calls[i])]

\* The end of the else branch of on_page_markdown: what the call leaves, given
\* what its steps gave.  pre and post are the two loops over the hooks, late
\* the registries after the pre-render hooks, body_in the text render was given
\* for the body, body and title the two calls of render.
end_page(d, meta, pre_raiser, post_raiser, pre, late, body_in, body, title, post) ==
    LET rec == [NoCur EXCEPT !.doc = d, !.meta = meta, !.raw = RawText(d, "body"),
                             !.steps = <<Event("set_markdown", "")>>]
        rec1 == [rec EXCEPT !.pre_raiser = pre_raiser, !.pre_calls = pre.calls,
                            !.steps = @ \o HookSteps("pre", pre.calls)]
        rec2 == [rec1 EXCEPT !.body_in = body_in, !.body = Observed(body),
                             !.steps = Append(@, Event("render", "body")),
                             !.callable = [globals |-> late.env.globals,
                                           filters |-> late.env.filters]]
        rec3 == [rec2 EXCEPT !.title = Observed(title),
                             !.steps = Append(@, Event("render", "title"))]
        rec4 == [rec3 EXCEPT !.post_raiser = post_raiser, !.post_calls = post.calls,
                             !.steps = @ \o HookSteps("post", post.calls)]
    IN  IF pre.raised
        THEN [store |-> late.store, markdown |-> pre.markdown, late |-> late,
              cur |-> [rec1 EXCEPT !.ended = "error"]]
        ELSE IF body.kind = "exit"
        THEN [store |-> body.store, markdown |-> pre.markdown, late |-> late,
              cur |-> [rec2 EXCEPT !.ended = "exit"]]
        ELSE IF title.kind = "exit"
        THEN [store |-> title.store, markdown |-> body.value, late |-> late,
              cur |-> [rec3 EXCEPT !.ended = "exit"]]
        ELSE IF post.raised
        THEN [store |-> title.store, markdown |-> post.markdown, late |-> late,
              cur |-> [rec4 EXCEPT !.ended = "error"]]
        ELSE [store |-> title.store, markdown |-> post.markdown, late |-> late,
              cur |-> [rec4 EXCEPT !.returned = post.markdown, !.ended = "returned",
                                   !.steps = Append(@, Event("return", ""))]]

\* for func in self.post_macro_functions: func(self), with env.markdown as
\* render left it, and return self.markdown
post_hooks(d, meta, pre_raiser, post_raiser, pre, late, body_in, body, title) ==
    end_page(d, meta, pre_raiser, post_raiser, pre, late, body_in, body, title,
             run_hooks(post_macro_functions, 1, post_raiser, "post", body.value))

\* page.title = self.render(page.title)
render_title(d, meta, pre_raiser, title_fails, post_raiser, pre, late, body_in, body) ==
    post_hooks(d, meta, pre_raiser, post_raiser, pre, late, body_in, body,
               render(RawText(d, "title"), body.store, [id |-> d, meta |-> meta], title_fails))

\* render_body that renders the markdown argument, not env.markdown
render_body_raw(d, meta, pre_raiser, body_fails, title_fails, post_raiser, pre, late) ==
    render_title(d, meta, pre_raiser, title_fails, post_raiser, pre, late, RawText(d, "body"),
                 render(RawText(d, "body"), late.store, [id |-> d, meta |-> meta], body_fails))

\* self.markdown = self.render(markdown=self.markdown)
render_body(d, meta, pre_raiser, body_fails, title_fails, post_raiser, pre, late) ==
    render_title(d, meta, pre_raiser, title_fails, post_raiser, pre, late, pre.markdown,
                 render(pre.markdown, late.store, [id |-> d, meta |-> meta], body_fails))

\* what the pre-render hooks that returned did besides assigning env.markdown
pre_hooks(d, meta, pre_raiser, body_fails, title_fails, post_raiser, pre) ==
    render_body(d, meta, pre_raiser, body_fails, title_fails, post_raiser, pre,
        hooks_register(pre.calls, 1,
                       IF pre.raised THEN Len(pre.calls) - 1 ELSE Len(pre.calls),
                       \* self.variables["page"] = copy(page)
                       [store |-> Update(variables, [page |-> [id |-> d, meta |-> meta]]),
                        macros |-> _macros, filters |-> _filters, attrs |-> attrs,
                        registered |-> <<>>, env |-> env]))

\* The else branch of on_page_markdown for document d with metadata meta: the
\* page enters the store, self._markdown is set, the pre-render hooks, render
\* on env.markdown and on the title, the post-render hooks, return of
\* env.markdown.  The result is the new store, the new self._markdown, the
\* registries and the record of the call, with its steps in the order they were
\* taken and how it ended.
process_page(d, meta, pre_raiser, body_fails, title_fails, post_raiser) ==
    pre_hooks(d, meta, pre_raiser, body_fails, title_fails, post_raiser,
              run_hooks(pre_macro_functions, 1, pre_raiser, "pre", RawText(d, "body")))

\* the text returned as it came, with nothing else done
return_unprocessed(d, meta) ==
    [store |-> variables, markdown |-> _markdown,
     late |-> [store |-> variables, macros |-> _macros, filters |-> _filters,
               attrs |-> attrs, env |-> env],
     cur |-> [NoCur EXCEPT !.doc = d, !.meta = meta, !.raw = RawText(d, "body"),
                           !.returned = RawText(d, "body"), !.ended = "returned",
                           !.steps = <<Event("return", "")>>]]

\* page_markdown that decides first and returns a skipped document at once
page_markdown_decide_first(d, meta, pre_raiser, body_fails, title_fails, post_raiser) ==
    LET page == [id |-> d, meta |-> meta]
        probe == render(RawText(d, "body"), Update(variables, [page |-> page]), page, FALSE)
    IN  IF DOMAIN variables = {} \/ ~probe.engine
        THEN return_unprocessed(d, meta)
        ELSE process_page(d, meta, pre_raiser, body_fails, title_fails, post_raiser)

\* The body of on_page_markdown(markdown, page, ...) after self._page = page.
\* Its inputs: the position of the pre-render / post-render hook that raises
\* (0: none), and whether the template engine raises on the body and on the
\* title.
page_markdown(d, meta, pre_raiser, body_fails, title_fails, post_raiser) ==
    IF DOMAIN variables = {}
    THEN return_unprocessed(d, meta)
    ELSE process_page(d, meta, pre_raiser, body_fails, title_fails, post_raiser)

\* the assignments of on_page_markdown for the document page, r being what
\* page_markdown gives
Paged(page, r) ==
    /\ variables' = r.store
    /\ _macros' = r.late.macros
    /\ _filters' = r.late.filters
    /\ attrs' = r.late.attrs
    /\ env' = r.late.env
    /\ _markdown' = r.markdown
    /\ cur' = r.cur
    /\ _page' = page
    /\ ctx' = [at |-> "page", page |-> property_page(page),
               markdown |-> property_markdown(
                   IF DOMAIN variables = {} THEN _markdown ELSE RawText(page.id, "body"))]
    /\ fatal' = IF r.cur.ended = "returned" THEN "none" ELSE r.cur.ended
    /\ raised' = IF r.cur.ended = "returned" THEN NoError
                 ELSE IF r.cur.ended = "exit" THEN [type |-> "SystemExit", name |-> ""]
                 ELSE [type |-> "Exception", name |-> "hook"]
    /\ exit_status' = IF r.cur.ended = "exit" THEN ERROR_MACRO ELSE exit_status

\* on_page_markdown(markdown, page, config) called by host h: one document, in
\* the host's order.  An input the call never reads (the engine's outcome for a
\* text it is not given, a raising hook in a loop that is not reached) is left
\* at its default.
PageMarkdown(h) ==
    /\ fatal = "none"
    /\ phase = "pages"
    /\ ndocs < MaxDocs
    /\ \E meta \in h.metas, pre_raiser \in Raisers(h, pre_macro_functions) :
         LET d == ndocs + 1
             c0 == page_markdown(d, meta, pre_raiser, FALSE, FALSE, 0).cur
         IN  \E body_fails \in (IF c0.body.engine THEN h.failures ELSE {FALSE}) :
               LET c1 == page_markdown(d, meta, pre_raiser, body_fails, FALSE, 0).cur
               IN  \E title_fails \in (IF c1.title.engine THEN h.failures ELSE {FALSE}) :
                     LET c2 == page_markdown(d, meta, pre_raiser, body_fails, title_fails, 0).cur
                     IN  \E post_raiser \in (IF c2.ended = "returned"
                                              THEN Raisers(h, post_macro_functions) ELSE {0}) :
                           Paged([id |-> d, meta |-> meta],
                                 page_markdown(d, meta, pre_raiser, body_fails,
                                               title_fails, post_raiser))
    /\ ndocs' = ndocs + 1
    /\ earlier' = Summary(earlier, cur)
    /\ UNCHANGED <<config, phase, pre_macro_functions, post_macro_functions,
                   post_build_functions, loaded, build_calls, build_raiser, installed,
                   load_log, registered, last_read, builds, prior>>

on_page_markdown == PageMarkdown(BuildHost)

\* on_post_build(config) called by host h: the post-build hooks, in list order
PostBuild(h) ==
    /\ fatal = "none"
    /\ phase = "pages"
    /\ \E raiser \in Raisers(h, post_build_functions) :
         LET r == run_hooks(post_build_functions, 1, raiser, "build", NoText)
         IN  /\ build_calls' = r.calls
             /\ build_raiser' = raiser
             /\ fatal' = IF r.raised THEN "error" ELSE "none"
             /\ raised' = IF r.raised THEN [type |-> "Exception", name |-> "hook"] ELSE NoError
    /\ phase' = "built"
    /\ ctx' = [at |-> "build", page |-> property_page(_page),
               markdown |-> property_markdown(_markdown)]
    /\ UNCHANGED <<config, exit_status, variables, pre_macro_functions, post_macro_functions,
                   post_build_functions, loaded, _page, _markdown, ndocs, cur, earlier,
                   _macros, _filters, env, installed, load_log, registered, last_read,
                   builds, attrs, prior>>

on_post_build == PostBuild(BuildHost)

Next == read_before_config \/ on_config \/ on_nav \/ on_page_markdown \/ on_post_build

Spec == Init /\ [][Next]_vars

\* serve mode: the same handlers, called by ServeHost
serve_on_config == Config(ServeHost)
serve_on_page_markdown == PageMarkdown(ServeHost)
serve_on_post_build == PostBuild(ServeHost)

ServeNext == serve_on_config \/ on_nav \/ serve_on_page_markdown \/ serve_on_post_build

ServeSpec == ServeInit /\ [][ServeNext]_vars

\* a build of the site of LayerInit, called by LayerHost
layer_on_config == Config(LayerHost)
layer_on_page_markdown == PageMarkdown(LayerHost)
layer_on_post_build == PostBuild(LayerHost)

LayerNext == layer_on_config \/ on_nav \/ layer_on_page_markdown \/ layer_on_post_build

LayerSpec == LayerInit /\ [][LayerNext]_vars

----------------------------------------------------------------------------
(* Properties *)

\* a tri-state flag of a document's metadata
Flag(meta, key) == IF key \in DOMAIN meta THEN meta[key] ELSE "absent"

\* the latest document got as far as render (no pre-render hook raised)
Decided == cur.doc # 0 /\ cur.body.kind # "none"

\* the flag combinations for which a document is skipped, by mode
SkipOptOut ==
    {<<"True", "True">>, <<"True", "False">>, <<"True", "absent">>,
     <<"False", "False">>, <<"absent", "False">>}
SkipOptIn ==
    {<<"True", "False">>, <<"True", "absent">>, <<"absent", "False">>, <<"absent", "absent">>}

\* the render decision for a document with metadata meta is skip
DecisionSkip(meta) ==
    <<Flag(meta, "ignore_macros"), Flag(meta, "render_macros")>>
        \in (IF config.render_by_default THEN SkipOptOut ELSE SkipOptIn)

\* C1: in opt-out mode a document is skipped (render returns its text and the
\* template engine is not invoked) exactly when ignore_macros is true or
\* render_macros is false, and rendered in every other combination of the flags.
C1_OptOutDecision ==
    (Decided /\ config.render_by_default) =>
        LET i == Flag(cur.meta, "ignore_macros")
            r == Flag(cur.meta, "render_macros")
        IN  /\ cur.body.engine <=> ~(i = "True" \/ r = "False")
            /\ ~cur.body.engine <=> (cur.body.kind = "return" /\ cur.body.value = cur.body_in)
            /\ (i = "absent" /\ r = "absent") => cur.body.engine
            /\ (i = "False" /\ r = "absent") => cur.body.engine

C1_Witness ==
    /\ Decided /\ config.render_by_default
    /\ Flag(cur.meta, "ignore_macros") = "absent"
    /\ Flag(cur.meta, "render_macros") = "False"
    /\ ~cur.body.engine

Writers(calls, ph) == {i \in 1..Len(calls) : ph \in Installed[calls[i]].writes}

\* C3 as stated: for a document whose render decision is skip, the text returned
\* to the host is the raw text and the template engine is not invoked on its body.
C3_SkippedReturnsRaw ==
    (cur.ended = "returned" /\ DecisionSkip(cur.meta)) =>
        (cur.returned = cur.raw /\ ~cur.body.engine)

\* C3 amended: for a document whose render decision is skip, render returns its
\* argument unchanged and the template engine is invoked neither on the body nor
\* on the title; the text returned to the host is env.markdown as the hooks left
\* it: the raw text when no invoked hook assigned env.markdown, a hook's text
\* otherwise.
C3_SkippedNotRendered ==
    (cur.ended = "returned" /\ DecisionSkip(cur.meta)) =>
        /\ ~cur.body.engine /\ ~cur.title.engine
        /\ cur.body.value = cur.body_in
        /\ cur.body_in = IF Writers(cur.pre_calls, "pre") = {} THEN cur.raw
                          ELSE hook_write(cur.raw, "pre")
        /\ cur.returned = IF Writers(cur.post_calls, "post") = {} THEN cur.body_in
                           ELSE hook_write(cur.body_in, "post")
        /\ cur.returned = cur.raw <=>
              (Writers(cur.pre_calls, "pre") = {} /\ Writers(cur.post_calls, "post") = {})

C3_Witness ==
    /\ cur.ended = "returned" /\ DecisionSkip(cur.meta)
    /\ Writers(cur.pre_calls, "pre") # {}
    /\ cur.returned # cur.raw

\* C4 as stated: for a document whose render decision is skip no pre-render hook
\* and no post-render hook is invoked.
C4_SkippedNoHooks ==
    (cur.doc # 0 /\ DecisionSkip(cur.meta)) => (cur.pre_calls = <<>> /\ cur.post_calls = <<>>)

\* C4 amended: the hooks do not depend on the render decision: for a document
\* whose render decision is skip every pre-render hook is invoked before render
\* and every post-render hook after it, up to a hook that raises.
C4_SkippedHooksRun ==
    (cur.doc # 0 /\ DecisionSkip(cur.meta)) =>
        /\ cur.pre_raiser = 0 => cur.pre_calls = pre_macro_functions
        /\ cur.ended = "returned" => cur.post_calls = post_macro_functions
        /\ Decided => ~cur.body.engine

C4_Witness ==
    /\ cur.ended = "returned" /\ DecisionSkip(cur.meta)
    /\ Len(cur.pre_calls) = 2 /\ Len(cur.post_calls) = 2

\* the hooks of phase ph that a sequence of loaded modules exposes, in its order
RECURSIVE HooksOf(_, _)
HooksOf(mods, ph) ==
    IF mods = <<>> THEN <<>>
    ELSE (IF ph \in Head(mods).hooks THEN <<Head(mods).name>> ELSE <<>>)
             \o HooksOf(Tail(mods), ph)

IsPrefix(s, t) == Len(s) <= Len(t) /\ s = SubSeq(t, 1, Len(s))

\* C5: in each of the three phases the hooks are invoked in the order of their
\* registration: those of the named modules in the configured order of the
\* modules list, then the one of the local module.
C5_HookOrder ==
    phase # "start" =>
        /\ [i \in 1..Len(loaded) |-> loaded[i].name]
              \in {config.modules, Append(config.modules, config.module_name)}
        /\ pre_macro_functions = HooksOf(loaded, "pre")
        /\ post_macro_functions = HooksOf(loaded, "post")
        /\ post_build_functions = HooksOf(loaded, "build")
        /\ IsPrefix(cur.pre_calls, pre_macro_functions)
        /\ IsPrefix(cur.post_calls, post_macro_functions)
        /\ IsPrefix(build_calls, post_build_functions)
        /\ (cur.doc # 0 /\ cur.pre_raiser = 0) => cur.pre_calls = pre_macro_functions
        /\ cur.ended = "returned" => cur.post_calls = post_macro_functions
        /\ (phase = "built" /\ build_raiser = 0) => build_calls = post_build_functions

C5_Witness ==
    /\ config.modules = <<"b", "a">>
    /\ phase = "built"
    /\ cur.pre_calls = <<"b", "a">>
    /\ cur.post_calls = <<"a", "main">>
    /\ build_calls = <<"b", "a", "main">>

\* C6: with on_error_fail false, a failure of the template engine on the body of
\* document d makes the rendered text of d the diagnostic, not the raw input, and
\* the build goes on: the call does not exit, the next document and the
\* post-build hooks can still be processed.
C6_FailureInline ==
    (~config.on_error_fail /\ cur.body.failed) =>
        /\ cur.body.kind = "return"
        /\ cur.body.value = [cur.body_in EXCEPT !.form = "error"]
        /\ cur.body.value.doc = cur.doc
        /\ cur.body.value # cur.raw /\ cur.body.value # cur.body_in
        /\ cur.ended \in {"returned", "error"}
        /\ cur.ended = "error" <=> cur.post_raiser # 0
        /\ cur.ended = "returned" =>
              cur.returned = IF Writers(cur.post_calls, "post") = {} THEN cur.body.value
                             ELSE hook_write(cur.body.value, "post")
        /\ exit_status = 0 /\ fatal # "exit"
        /\ (phase = "pages" /\ cur.ended = "returned") =>
              fatal = "none"

C6_Witness ==
    /\ ~config.on_error_fail
    /\ earlier.diag
    /\ cur.doc = 2 /\ cur.ended = "returned" /\ cur.body.engine /\ ~cur.body.failed
    /\ phase = "built" /\ build_raiser = 0 /\ Len(build_calls) > 0

\* C7: with on_error_fail true, the first failure of the template engine on a
\* document (its body or its title) ends the build with status 100: no
\* post-render hook is invoked for that document, it is not returned, no later
\* document is processed and no post-build hook is invoked.
C7_FailureExits ==
    (config.on_error_fail /\ (cur.body.failed \/ cur.title.failed)) =>
        /\ fatal = "exit" /\ exit_status = 100
        /\ cur.ended = "exit"
        /\ cur.post_calls = <<>> /\ cur.returned = NoText
        /\ cur.body.failed => cur.title = NoRender
        /\ ndocs = cur.doc /\ phase = "pages"
        /\ build_calls = <<>>
        /\ ~ENABLED Next

C7_Witness ==
    /\ config.on_error_fail /\ cur.body.failed
    /\ cur.doc = 1 /\ Len(post_macro_functions) > 0 /\ Len(post_build_functions) > 0

\* C8: for every document that is rendered and returned, all post-render hooks
\* are invoked, in list order, whether the template engine succeeded or failed.
C8_PostHooksAlways ==
    (cur.body.engine /\ cur.ended = "returned") =>
        /\ cur.post_calls = post_macro_functions
        /\ cur.post_raiser = 0

C8_Witness ==
    /\ cur.body.failed /\ cur.ended = "returned"
    /\ Len(cur.post_calls) = 2

\* C9: a hook that raises in any of the three phases ends the build with an
\* error whatever on_error_fail is: the hooks after it in the list are not
\* invoked, nothing is rendered after a pre-render hook raised, and the
\* document is not returned.
C9_HookFailureFatal ==
    /\ cur.pre_raiser # 0 =>
          /\ fatal = "error" /\ cur.ended = "error" /\ exit_status = 0
          /\ cur.pre_calls = SubSeq(pre_macro_functions, 1, cur.pre_raiser)
          /\ cur.body = NoRender /\ cur.title = NoRender
          /\ cur.post_calls = <<>> /\ cur.returned = NoText
          /\ ndocs = cur.doc /\ phase = "pages" /\ build_calls = <<>>
    /\ cur.post_raiser # 0 =>
          /\ fatal = "error" /\ cur.ended = "error" /\ exit_status = 0
          /\ cur.post_calls = SubSeq(post_macro_functions, 1, cur.post_raiser)
          /\ cur.returned = NoText
          /\ ndocs = cur.doc /\ phase = "pages" /\ build_calls = <<>>
    /\ build_raiser # 0 =>
          /\ fatal = "error" /\ exit_status = 0
          /\ build_calls = SubSeq(post_build_functions, 1, build_raiser)
    /\ fatal = "error" => ~ENABLED Next

C9_Witness ==
    /\ ~config.on_error_fail
    /\ cur.post_raiser = 1 /\ Len(post_macro_functions) = 2
    /\ cur.body.failed

\* C10: metadata overrides a variable only for the document that carries it: a
\* document without k in its metadata is rendered (body and title) with the
\* value the store got for k at setup, or without k when the store has none,
\* also after a document with k in its metadata.
C10_MetaDoesNotLeak ==
    \A r \in {cur.body, cur.title} :
        (r.engine /\ "k" \notin DOMAIN cur.meta) =>
            /\ "k" \in DOMAIN variables["extra"] =>
                  ("k" \in DOMAIN r.page_variables
                     /\ r.page_variables["k"] = variables["extra"]["k"])
            /\ "k" \notin DOMAIN variables["extra"] => "k" \notin DOMAIN r.page_variables

C10_Witness ==
    /\ earlier.meta_k
    /\ cur.body.engine /\ "k" \notin DOMAIN cur.meta
    /\ "k" \notin DOMAIN cur.body.page_variables

\* the elements of a sequence
Elems(seq) == {seq[i] : i \in 1..Len(seq)}

\* the names of a sequence of modules
Names(mods) == [i \in 1..Len(mods) |-> mods[i].name]

\* the positions of the load log with the entry Event(op, name)
At(op, name) == {i \in 1..Len(load_log) : load_log[i] = Event(op, name)}

\* the latest setup ran _load_modules
Loading == builds >= 1

\* C11: loading a module that has neither define_env nor declare_variables
\* raises NameError naming the module, also when the module has hooks, and
\* none of its hooks is in any hook list; a module with one of the two entry
\* points, the legacy one included, is loaded without this error.
C11_NoEntryPoint ==
    Loading =>
        /\ \A i \in 1..Len(load_log) :
              (load_log[i].op = "load" /\ Installed[load_log[i].name].entry = {}) =>
                  /\ raised = [type |-> "NameError", name |-> load_log[i].name]
                  /\ fatal = "error" /\ phase = "config"
                  /\ i = Len(load_log)
                  /\ load_log[i].name \notin Elems(pre_macro_functions)
                  /\ load_log[i].name \notin Elems(post_macro_functions)
                  /\ load_log[i].name \notin Elems(post_build_functions)
                  /\ load_log[i].name \notin Elems(Names(loaded))
        /\ raised.type = "NameError" =>
              /\ load_log # <<>>
              /\ load_log[Len(load_log)].op = "load"
              /\ Installed[raised.name].entry = {}
        /\ \A i \in 1..Len(loaded) : loaded[i].entry # {}

C11_Witness ==
    /\ raised = [type |-> "NameError", name |-> "c"]
    /\ Installed["c"].hooks = {"pre", "build"}
    /\ config.modules = <<"b", "c">>
    /\ Names(loaded) = <<"b">> /\ loaded[1].entry = {"declare_variables"}
    /\ pre_macro_functions = <<"b">> /\ post_build_functions = <<"b">>

\* the named modules import cannot find, install or no install
Missing == {m \in AllModuleNames : Installed[m].dist \in {"broken", "absent"}}

\* C12: for each named module import is attempted; when the module is not
\* found there is exactly one install and, when the install succeeds, exactly
\* one more import; when the install or the second import fails, setup fails
\* with ModuleNotFoundError naming that module, and no later named module and
\* no local module is imported or loaded.
C12_ImportInstallRetry ==
    Loading =>
        /\ \A m \in AllModuleNames :
              /\ Cardinality(At("install", m)) <= 1
              /\ Cardinality(At("import", m)) <= 1 + Cardinality(At("install", m))
              /\ \A i \in At("install", m) :
                    /\ i > 1 /\ load_log[i - 1] = Event("import", m)
                    /\ i < Len(load_log) => load_log[i + 1] = Event("import", m)
              /\ At("load", m) # {} => At("import", m) # {}
        /\ \A i \in 1..Len(config.modules) :
              LET m == config.modules[i]
                  before == SubSeq(config.modules, 1, i - 1)
              IN  (m \in Missing /\ \A j \in 1..(i - 1) :
                                       /\ config.modules[j] \notin Missing
                                       /\ Installed[config.modules[j]].entry # {}) =>
                      /\ raised = [type |-> "ModuleNotFoundError", name |-> m]
                      /\ fatal = "error" /\ phase = "config"
                      /\ Cardinality(At("install", m)) = 1
                      /\ Cardinality(At("import", m)) =
                            (IF Installed[m].dist = "absent" THEN 2 ELSE 1)
                      /\ At("load", m) = {}
                      /\ Names(loaded) = before
                      /\ \A k \in 1..Len(load_log) :
                            /\ load_log[k].name \in Elems(before) \cup {m}
                            /\ load_log[k].op # "import_local"
        /\ raised.type = "ModuleNotFoundError" => raised.name \in Missing

C12_Witness ==
    /\ config.modules = <<"e", "a">>
    /\ raised = [type |-> "ModuleNotFoundError", name |-> "e"]
    /\ load_log = <<Event("import", "e"), Event("install", "e"), Event("import", "e")>>
    /\ loaded = <<>>

\* the setup got as far as the local module: no named module failed
NamedLoaded ==
    /\ Loading
    /\ \A i \in 1..Len(config.modules) :
          /\ config.modules[i] \notin Missing
          /\ Installed[config.modules[i]].entry # {}

\* C13: the local module is imported exactly once, after every import and load
\* of a named module, and loaded at most once; when it is not found the setup
\* goes on without a load error if module_name is the default "main", and
\* fails with ImportError naming it if module_name is another name.
C13_LocalModule ==
    NamedLoaded =>
        LET local == config.module_name
            at == At("import_local", local)
        IN  /\ Cardinality(at) = 1
            /\ \A p \in at :
                  /\ \A i \in 1..(p - 1) : load_log[i].name \in Elems(config.modules)
                  /\ \A m \in Elems(config.modules) : \E i \in 1..(p - 1) :
                        load_log[i] = Event("load", m)
                  /\ p >= Len(load_log) - 1
                  /\ p = Len(load_log) - 1 => load_log[Len(load_log)] = Event("load", local)
                  /\ (p = Len(load_log) /\ local = DEFAULT_MODULE_NAME) =>
                        /\ raised.type \notin {"ImportError", "ModuleNotFoundError", "NameError"}
                        /\ Names(loaded) = config.modules
                  /\ (p = Len(load_log) /\ local # DEFAULT_MODULE_NAME) =>
                        /\ raised = [type |-> "ImportError", name |-> local]
                        /\ fatal = "error" /\ phase = "config"
                  /\ p = Len(load_log) - 1 =>
                        /\ Names(loaded) = Append(config.modules, local)
                        /\ raised.type # "ImportError"
            /\ Cardinality(At("load", local)) <= 1

C13_Witness ==
    /\ config.module_name = "custom"
    /\ config.modules = <<"a", "b">>
    /\ raised = [type |-> "ImportError", name |-> "custom"]
    /\ Names(loaded) = <<"a", "b">>

\* the name a registration binds: the given name, the callable's own by default
BoundName(r) == IF r.name # "" THEN r.name ELSE r.v.__name__

\* the registry that the registrations of kind `kind` in regs build, in order
RECURSIVE Bindings(_, _)
Bindings(regs, kind) ==
    IF regs = <<>> THEN EmptyDict
    ELSE LET r == regs[Len(regs)]
             rest == Bindings(SubSeq(regs, 1, Len(regs) - 1), kind)
         IN  IF r.kind = kind THEN Update(rest, [x \in {BoundName(r)} |-> r.v]) ELSE rest

\* C14: macro and filter bind the callable under the given name, under the
\* callable's own name by default, and return the callable unchanged; a name
\* registered again is rebound to the latest callable (the local module,
\* loaded last, overrides the named modules); a filter registered under n does
\* not change the macro bound to n, nor a macro the filter.
C14_Registration ==
    (builds = 1 /\ "_macros" \in attrs) =>
        /\ \A i \in 1..Len(registered) : registered[i].result = registered[i].v
        /\ _macros = Bindings(registered, "macro")
        /\ "_filters" \in attrs => _filters = Bindings(registered, "filter")
        /\ "_filters" \notin attrs => Bindings(registered, "filter") = EmptyDict
        /\ \A i \in 1..Len(registered) :
              LET r == registered[i]
                  later == {j \in (i + 1)..Len(registered) :
                               registered[j].kind = r.kind
                                  /\ BoundName(registered[j]) = BoundName(r)}
              IN  /\ (r.kind = "macro" /\ later = {}) => _macros[BoundName(r)] = r.v
                  /\ (r.kind = "filter" /\ later = {}) => _filters[BoundName(r)] = r.v

C14_Witness ==
    /\ builds = 1 /\ fatal = "none"
    /\ Names(loaded) = <<"a", "b", "main">>
    /\ _macros["f"] = Callable("f", "main.f")
    /\ _filters["f"] = Callable("f", "a.flt")
    /\ _macros["g"] = Callable("helper", "b.helper")
    /\ "helper" \notin DOMAIN _macros

\* the properties of the store, the registries and the hook lists
SetupProperties ==
    {"variables", "macros", "filters", "pre_macro_functions", "post_macro_functions",
     "post_build_functions"}

\* C15 as stated: a read of variables, macros, filters or a hook list before
\* on_config raises the too-early error (AttributeError) and returns no default.
C15_EarlyReadRaises ==
    (phase = "start" /\ last_read.prop \in SetupProperties) => last_read.kind = "raise"

\* a read of filters before on_config has returned an empty mapping and left
\* self._filters set
C15_Witness ==
    /\ phase = "start" /\ builds = 0
    /\ last_read.prop = "filters" /\ last_read.kind = "return"
    /\ last_read.value = EmptyDict
    /\ "_filters" \in attrs /\ "_variables" \notin attrs

\* C16: on_undefined selects one of the four policies keep, silent, strict and
\* lax, keep by default; with any other name every setup ends with an error
\* (ValueError when nothing failed before the check), no document is processed
\* and no template environment is built.
C16_UndefinedPolicy ==
    /\ DOMAIN UNDEFINED_BEHAVIOR = {"keep", "silent", "strict", "lax"}
    /\ DEFAULT_UNDEFINED_BEHAVIOR = "keep"
    /\ (Loading /\ config.on_undefined \notin DOMAIN UNDEFINED_BEHAVIOR) =>
          /\ fatal = "error" /\ phase = "config" /\ builds = 1
          /\ raised.type \in {"ValueError", "FileNotFoundError", "ImportError",
                              "ModuleNotFoundError", "NameError"}
          /\ env = NoEnv
          /\ ndocs = 0 /\ cur = NoCur /\ _page = NoPage
    /\ raised.type = "ValueError" => config.on_undefined \notin DOMAIN UNDEFINED_BEHAVIOR
    /\ env # NoEnv =>
          /\ config.on_undefined \in DOMAIN UNDEFINED_BEHAVIOR
          /\ env.undefined = UNDEFINED_BEHAVIOR[config.on_undefined]
    /\ cur.doc # 0 => env # NoEnv

C16_Witness ==
    /\ config.on_undefined = "bogus"
    /\ raised = [type |-> "ValueError", name |-> "on_undefined"]
    /\ Names(loaded) = <<"a", "main">>
    /\ env = NoEnv

\* no element occurs twice in the sequence
NoDuplicates(seq) == \A i, j \in 1..Len(seq) : seq[i] = seq[j] => i = j

\* C17: on_nav, on_page_markdown and on_post_build leave the three hook lists
\* unchanged, and after every setup each list holds exactly the hooks of the
\* modules that setup loaded, in load order and each once, with no hook left
\* from an earlier build of the process.
C17_HookListsFixed ==
    /\ [](Loading =>
            /\ pre_macro_functions = HooksOf(loaded, "pre")
            /\ post_macro_functions = HooksOf(loaded, "post")
            /\ post_build_functions = HooksOf(loaded, "build")
            /\ NoDuplicates(pre_macro_functions)
            /\ NoDuplicates(post_macro_functions)
            /\ NoDuplicates(post_build_functions)
            /\ Elems(Names(loaded)) \subseteq Elems(config.modules) \cup {config.module_name})
    /\ [][builds' = builds =>
            UNCHANGED <<pre_macro_functions, post_macro_functions, post_build_functions>>]_vars

C17_Witness ==
    /\ builds = 2 /\ phase = "built" /\ fatal = "none" /\ ndocs = 2
    /\ "main" \in prior /\ "main" \notin Elems(Names(loaded))
    /\ Names(loaded) = <<"a", "b">>
    /\ build_calls = <<"a", "b">>

\* C18 as stated: processing a document leaves the store as it was before the
\* document: no key is added, removed or rebound.
C18_StoreUnchanged ==
    [][(ndocs' = ndocs + 1 /\ cur'.ended = "returned") => variables' = variables]_vars

\* C18 amended: processing a document binds the key page of the store to the
\* document's page and leaves every other key of the store as it was: none is
\* added, removed or rebound, whether the document is rendered or skipped and
\* whether or not the template engine fails.
C18_StoreKeepsAllButPage ==
    [][ndocs' = ndocs + 1 =>
          /\ DOMAIN variables' = DOMAIN variables \cup {"page"}
          /\ \A key \in DOMAIN variables \ {"page"} : variables'[key] = variables[key]
          /\ variables'["page"] = [id |-> cur'.doc, meta |-> cur'.meta]]_vars

C18_Witness ==
    /\ cur.doc = 2 /\ cur.ended = "returned"
    /\ cur.body.engine /\ cur.title.engine
    /\ "k" \in DOMAIN cur.meta /\ "k" \notin DOMAIN variables
    /\ variables["page"] = [id |-> 2, meta |-> cur.meta]

\* the names bound by the registrations of kind `kind` in the latest setup
Registered(kind) ==
    {BoundName(registered[i]) : i \in {j \in 1..Len(registered) : registered[j].kind = kind}}

\* C19 as stated: after a setup that succeeded, the macro and filter registries
\* and the variables of the modules hold only what this setup registered.
C19_SetupStartsFresh ==
    (Loading /\ phase = "config" /\ fatal = "none") =>
        /\ DOMAIN _macros = Registered("macro")
        /\ DOMAIN _filters = Registered("filter")
        /\ DOMAIN env.filters = Registered("filter")
        /\ DOMAIN variables["filters"] = Registered("filter")
        /\ DOMAIN variables["macros"] = Registered("macro")
        /\ "v_main" \in DOMAIN variables <=> "v_main" \in Registered("variable")
        /\ "k" \in DOMAIN variables <=> "k" \in DOMAIN variables["extra"]

\* a filter registered by the local module in the first build only is in the
\* registry and in the template environment after the second setup
C19_Witness ==
    /\ builds = 2 /\ phase = "config" /\ fatal = "none"
    /\ "main" \in prior /\ "main" \notin Elems(Names(loaded))
    /\ "only_main" \notin Registered("filter")
    /\ "only_main" \in DOMAIN _filters /\ "only_main" \in DOMAIN env.filters
    /\ "v_main" \notin DOMAIN variables /\ DOMAIN _macros = Registered("macro")

\* C20 as stated: env.page and env.markdown raise the too-early error when read
\* during a setup or in a post-build hook, and while document d is processed
\* they are d's page and d's text.
C20_PageContextScoped ==
    /\ ctx.at \in {"config", "build"} =>
          (ctx.page.kind = "raise" /\ ctx.markdown.kind = "raise")
    /\ ctx.at = "page" =>
          /\ ctx.page.kind = "return" /\ ctx.page.value = [id |-> cur.doc, meta |-> cur.meta]
          /\ ctx.markdown.kind = "return" /\ ctx.markdown.value = cur.raw

\* the setup of a rebuild reads the page and the text of the last document of
\* the build before
C20_Witness ==
    /\ builds = 2 /\ ctx.at = "config"
    /\ ctx.page.kind = "return" /\ ctx.page.value.id = MaxDocs
    /\ ctx.markdown.kind = "return" /\ ctx.markdown.value.doc = MaxDocs

\* the latest document was rendered: the template engine was given its body
\* and the call returned
Rendered == cur.ended = "returned" /\ cur.body.engine

\* C21: for every rendered document the steps are, in this order: env.markdown
\* is set to the raw text, every pre-render hook runs, the template engine
\* renders the body from env.markdown as the pre-render hooks left it, the
\* title goes through render with no hook fired again, every post-render hook
\* runs, and the text returned is env.markdown as the last post-render hook
\* left it.
C21_PageSteps ==
    Rendered =>
        /\ cur.steps = <<Event("set_markdown", "")>>
                         \o HookSteps("pre", pre_macro_functions)
                         \o <<Event("render", "body"), Event("render", "title")>>
                         \o HookSteps("post", post_macro_functions)
                         \o <<Event("return", "")>>
        /\ cur.raw = RawText(cur.doc, "body")
        /\ phase = "pages" => (ctx.at = "page" /\ ctx.markdown = property_markdown(cur.raw))
        /\ cur.body_in = IF Writers(pre_macro_functions, "pre") = {} THEN cur.raw
                          ELSE hook_write(cur.raw, "pre")
        /\ cur.body.value = IF cur.body.failed THEN format_error(cur.body_in, _page)
                             ELSE engine_render(cur.body_in)
        /\ cur.title.kind = "return" /\ cur.title.engine
        /\ cur.returned = IF Writers(post_macro_functions, "post") = {} THEN cur.body.value
                           ELSE hook_write(cur.body.value, "post")
        /\ _markdown = cur.returned

C21_Witness ==
    /\ Rendered
    /\ Len(cur.pre_calls) = 2 /\ Len(cur.post_calls) = 2
    /\ cur.body_in # cur.raw
    /\ cur.returned.pre /\ cur.returned.form = "rendered" /\ cur.returned.post

\* the calls the registration entry points of module m make, in order
AllRegs(m) ==
    (IF "define_env" \in m.entry THEN m.registers.define_env ELSE <<>>)
        \o (IF "declare_variables" \in m.entry THEN m.registers.declare_variables ELSE <<>>)

\* the positions at which module m assigns the variable key, and the value it
\* leaves there
Assigns(m, key) ==
    {i \in 1..Len(AllRegs(m)) : AllRegs(m)[i].kind = "variable" /\ AllRegs(m)[i].name = key}
ModuleValue(m, key) ==
    AllRegs(m)[CHOOSE i \in Assigns(m, key) : \A j \in Assigns(m, key) : j <= i].v.body

\* the loaded modules that assign key: the local one, the named ones
LocalDefiners(key) ==
    {i \in 1..Len(loaded) : loaded[i].name = config.module_name /\ Assigns(loaded[i], key) # {}}
NamedDefiners(key) ==
    {i \in 1..Len(loaded) : loaded[i].name # config.module_name /\ Assigns(loaded[i], key) # {}}

\* the layers below the document's metadata define key, and the value of the
\* highest of them that does: local module, named modules (the later one over
\* the earlier), extra, built-in context, include_yaml file
SetupDefines(key) ==
    \/ LocalDefiners(key) # {} \/ NamedDefiners(key) # {}
    \/ key \in DOMAIN variables["extra"] \/ key \in DOMAIN BuiltinContext
    \/ key \in DOMAIN config.include_yaml
SetupValue(key) ==
    IF LocalDefiners(key) # {}
    THEN ModuleValue(loaded[CHOOSE i \in LocalDefiners(key) : TRUE], key)
    ELSE IF NamedDefiners(key) # {}
    THEN ModuleValue(loaded[CHOOSE i \in NamedDefiners(key) :
                                \A j \in NamedDefiners(key) : j <= i], key)
    ELSE IF key \in DOMAIN variables["extra"] THEN variables["extra"][key]
    ELSE IF key \in DOMAIN BuiltinContext THEN BuiltinContext[key]
    ELSE config.include_yaml[key]

\* the same with the metadata of the latest document on top
Defines(key) == key \in DOMAIN cur.meta \/ SetupDefines(key)
LayerValue(key) == IF key \in DOMAIN cur.meta THEN cur.meta[key] ELSE SetupValue(key)

\* the keys the layers of this model define, and those of them that setup binds
\* itself after the modules are loaded
LayerKeys == {"k", "git", "macros"}
SetupKeys == {"macros", "filters", "filters_builtin"}

\* setup has finished and the store is there
SetUp == builds >= 1 /\ phase # "start" /\ ~(phase = "config" /\ raised # NoError)

Calls(entry, name) ==
    {i \in 1..Len(registered) : registered[i] = Called(entry, name)}

\* the calls of macro that the entry point `entry` of module m makes for the
\* name x
MacroRegs(m, entry, x) ==
    {i \in 1..Len(m.registers[entry]) :
        m.registers[entry][i].kind = "macro" /\ BoundName(m.registers[entry][i]) = x}

\* the macro names that both entry points of m register
RegisteredByBoth(m) ==
    {x \in {BoundName(m.registers.define_env[i]) : i \in 1..Len(m.registers.define_env)} :
        MacroRegs(m, "define_env", x) # {} /\ MacroRegs(m, "declare_variables", x) # {}}

\* C23: a module with both registration entry points is loaded without error,
\* define_env and declare_variables are each called exactly once for it,
\* define_env first, and a macro name that both register stays bound to what
\* declare_variables registered (until a module loaded later rebinds it).
C23_BothEntryPoints ==
    Loading =>
        \A p \in 1..Len(loaded) :
            LET m == loaded[p] IN
            m.entry = {"define_env", "declare_variables"} =>
                /\ raised # [type |-> "NameError", name |-> m.name]
                /\ Cardinality(Calls("define_env", m.name)) = 1
                /\ Cardinality(Calls("declare_variables", m.name)) = 1
                /\ \A i \in Calls("define_env", m.name), j \in Calls("declare_variables", m.name) :
                      /\ i < j
                      /\ \A x \in RegisteredByBoth(m) :
                            LET legacy == m.registers.declare_variables
                                last == CHOOSE q \in MacroRegs(m, "declare_variables", x) :
                                            \A q2 \in MacroRegs(m, "declare_variables", x) : q2 <= q
                                later == {q \in (j + Len(legacy) + 1)..Len(registered) :
                                             /\ registered[q].kind = "macro"
                                             /\ BoundName(registered[q]) = x}
                            IN  later = {} => _macros[x] = legacy[last].v

C23_Witness ==
    /\ Loading /\ raised = NoError /\ phase = "pages"
    /\ \E p \in 1..Len(loaded) : loaded[p].name = "n"
    /\ Calls("define_env", "n") # {} /\ Calls("declare_variables", "n") # {}
    /\ _macros["f"] = Callable("f", "n.legacy")
    /\ variables["k"] = "v_n"

\* the two flags of the latest document contradict each other
Contradictory ==
    <<Flag(cur.meta, "ignore_macros"), Flag(cur.meta, "render_macros")>>
        \in {<<"True", "True">>, <<"False", "False">>}

\* what render did with the body of the latest document: it returned the text
\* it was given without the template engine; the template engine was given it
BodySkipped == ~cur.body.engine /\ cur.body.kind = "return" /\ cur.body.value = cur.body_in
BodyRendered ==
    /\ cur.body.engine
    /\ cur.body.kind = "return" => cur.body.value.form \in {"rendered", "error"}

HooksReturned ==
    {cur.pre_calls[i] : i \in {j \in 1..Len(cur.pre_calls) : j # cur.pre_raiser}}

\* the names a registration of kind `kind` was made for after setup, by the
\* pre-render hooks of the latest document
LateNames(kind) ==
    UNION {{BoundName(LateRegs[m][i]) :
               i \in {j \in 1..Len(LateRegs[m]) : LateRegs[m][j].kind = kind}} :
           m \in HooksReturned \cap DOMAIN LateRegs}

\* C25: what the template engine can call while it renders a document is what
\* the registries held when setup finished: every macro and filter a module
\* registered in setup, bound as setup left it, and nothing else; a macro or
\* filter that a pre-render hook registers is in the registry afterwards, and
\* the engine cannot call it, in this document or a later one.
C25_CallableFixedAtSetup ==
    /\ (SetUp /\ phase = "config") => (env.globals = _macros /\ env.filters = _filters)
    /\ SetUp => (env.globals = Bindings(registered, "macro")
                   /\ env.filters = Bindings(registered, "filter"))
    /\ (cur.doc # 0 /\ cur.body.engine) =>
          /\ cur.callable = [globals |-> env.globals, filters |-> env.filters]
          /\ \A i \in 1..Len(registered) :
                /\ registered[i].kind = "macro" =>
                      BoundName(registered[i]) \in DOMAIN cur.callable.globals
                /\ registered[i].kind = "filter" =>
                      BoundName(registered[i]) \in DOMAIN cur.callable.filters
          /\ \A x \in LateNames("macro") :
                x \in DOMAIN _macros /\ x \notin DOMAIN cur.callable.globals
          /\ \A x \in LateNames("filter") :
                x \in DOMAIN _filters /\ x \notin DOMAIN cur.callable.filters

C25_Witness ==
    /\ cur.doc = 2 /\ Rendered
    /\ "late" \in LateNames("macro") /\ "late_flt" \in LateNames("filter")
    /\ DOMAIN _macros = {"f", "late"}
    /\ DOMAIN cur.callable.globals = {"f"}
    /\ "late_flt" \in DOMAIN _filters
    /\ DOMAIN cur.callable.filters = {"f"}

====
